---- MODULE Spec2Model ----
(***************************************************************************)
(* Model of the snapshot / digest / diff engine of blender_vdiff           *)
(* (src/src/vdiff_core/blenddiff.py, class BlendDiff).                     *)
(*                                                                         *)
(* Python strings are TLA+ strings, f-strings are concatenations (\o),     *)
(* so identity keys and property paths are built character by character   *)
(* the way the code builds them.  hashlib.blake2s is treated as injective  *)
(* on the bytes fed to it: Blake2s(bytes) is the fed byte string between   *)
(* "<" and ">", two characters that no name, custom property or property   *)
(* value of the documents holds, so two digests are equal exactly when the *)
(* fed bytes are.                                                          *)
(***************************************************************************)
EXTENDS Integers, Sequences, FiniteSets, TLC

VARIABLES
    docA,      \* file-original: the entities the host enumerates, in host order
    docB,      \* file-modified
    id_prop,   \* --id-prop ("" when not given)
    active,    \* bpy.data.filepath: the file loaded in the host ("none", "A" or "B")
    pc,        \* position of the caller
    snapA,     \* snapshot of file-original (insertion-ordered dict)
    snapB,     \* snapshot of file-modified
    result,    \* value returned by diff_blend_files
    hashA,     \* value returned by hash_blend_file(file-original)
    hashB,     \* value returned by hash_blend_file(file-modified)
    datablock, \* the datablock handed to _hash_datablock
    hashed,    \* value returned by _hash_datablock(datablock)
    identity,     \* value returned by _identity_key(datablock, hashed, id_prop)
    props_a,   \* first props map handed to _diff_props
    props_b,   \* second props map handed to _diff_props
    props_delta, \* value returned by _diff_props(props_a, props_b)
    policy,       \* the policy sets of two builds, each in its iteration order
    policy_hash,  \* the policy_hash of _get_policy_metadata_json for each build
    current,      \* bpy.data: the document in memory
    _cache,       \* self._cache of each BlendDiff instance
    call,         \* the last call made on a BlendDiff instance
    returned,     \* the value that call returned
    snap_current, \* snap_current of that call (diff_current_vs_other)
    snap_other,   \* snap_other of that call
    events,       \* the host operations made by that call, in order
    sys_argv,     \* the command line of the process
    _BLENDER,     \* bpy and mathutils are importable
    launch,       \* the branch taken by the __main__ dispatch
    payload,      \* payload of _run_directly_from_args
    output,       \* what the run wrote to stdout and to --file-out
    exit_code,    \* exit status of the process
    graph,        \* the structures reachable from a walked entity, by address
    stack,        \* the structures of the active _walk_rna calls, outermost first
    is_dirty,     \* bpy.data.is_dirty: the document in memory has unsaved changes
    compare_filepath, \* WindowManager.compare_filepath
    excluded,     \* names of the objects under excluded collections of the view layer
    selected      \* names of the objects selected in the window's scene

engineVars == <<docA, docB, id_prop, active, pc, snapA, snapB, result, hashA, hashB>>
walkVars == <<datablock, hashed, identity>>
propsVars == <<props_a, props_b, props_delta>>
policyVars == <<policy, policy_hash>>
sessionVars == <<current, _cache, call, returned, snap_current, snap_other, events>>
cliVars == <<sys_argv, _BLENDER, launch, payload, output, exit_code>>

graphVars == <<graph, stack>>
addonVars == <<is_dirty, compare_filepath, excluded, selected>>

vars == <<engineVars, walkVars, propsVars, policyVars, sessionVars, cliVars,
          graphVars, addonVars>>

-----------------------------------------------------------------------------
(* Bounds *)

MaxEntities == 2       \* entities per document when two documents are compared
MaxSnapEntities == 3   \* entities of the document that is enumerated in two orders
MaxDepth == 2          \* nesting depth of the embedded structures of a datablock
MaxItems == 2          \* elements of a collection property
MaxStructs == 3        \* structures of a property graph with shared or cyclic references

-----------------------------------------------------------------------------
(* Python strings: code point order, sorted(), str.endswith *)

Alphabet == " -.0123456789:<>ABCDEFGHIJKLMNOPQRSTUVWXYZ[]_abcdefghijklmnopqrstuvwxyz"

\* the characters of the model in code point order: the rank of each
CodePoints ==
    [c \in {SubSeq(Alphabet, i, i) : i \in 1..Len(Alphabet)} |->
        CHOOSE i \in 1..Len(Alphabet) : SubSeq(Alphabet, i, i) = c]

Ord(c) == CodePoints[c]

RECURSIVE FirstDifference(_, _, _)
\* the first position at which a and b differ, 0 when one is a prefix of the other
FirstDifference(a, b, i) ==
    IF i > Len(a) \/ i > Len(b) THEN 0
    ELSE IF SubSeq(a, i, i) # SubSeq(b, i, i) THEN i
    ELSE FirstDifference(a, b, i + 1)

\* a < b for Python str: lexicographic on code points, a proper prefix is smaller
StrLess(a, b) ==
    LET i == FirstDifference(a, b, 1)
    IN  IF i = 0 THEN Len(a) < Len(b)
        ELSE Ord(SubSeq(a, i, i)) < Ord(SubSeq(b, i, i))

RECURSIVE Sorted(_)
\* sorted(S) for a set (or the key set of a dict) of strings
Sorted(S) ==
    IF S = {} THEN <<>>
    ELSE LET m == CHOOSE x \in S : \A y \in S : x = y \/ StrLess(x, y)
         IN  <<m>> \o Sorted(S \ {m})

EndsWith(s, suffix) ==
    /\ Len(s) >= Len(suffix)
    /\ SubSeq(s, Len(s) - Len(suffix) + 1, Len(s)) = suffix

Blake2s(bytes) == "<" \o bytes \o ">"

-----------------------------------------------------------------------------
(* Python values held by properties *)

PyNone == [t |-> "none"]
PyStrV(s) == [t |-> "str", s |-> s]
PyBool(b) == [t |-> "bool", b |-> b]
PyInt(i) == [t |-> "int", i |-> i]
PyFloat(f) == [t |-> "float", f |-> f]   \* the float f.0
\* the float -0.0: equal to 0.0 and to 0, printed as "-0.0"
PyNegZero == [t |-> "float", f |-> 0, neg |-> TRUE]

Digits == <<"0", "1", "2", "3", "4", "5", "6", "7", "8", "9">>

\* str(v)
PyStr(v) ==
    CASE v.t = "none"  -> "None"
      [] v.t = "str"   -> v.s
      [] v.t = "bool"  -> IF v.b THEN "True" ELSE "False"
      [] v.t = "int"   -> Digits[v.i + 1]
      [] v.t = "float" -> IF "neg" \in DOMAIN v THEN "-0.0"
                          ELSE Digits[v.f + 1] \o ".0"

IsNumber(v) == v.t \in {"bool", "int", "float"}

NumberOf(v) ==
    CASE v.t = "bool"  -> IF v.b THEN 1 ELSE 0
      [] v.t = "int"   -> v.i
      [] v.t = "float" -> v.f

\* a != b
PyNe(a, b) ==
    IF IsNumber(a) /\ IsNumber(b) THEN NumberOf(a) # NumberOf(b)
    ELSE IF a.t # b.t THEN TRUE
    ELSE IF a.t = "str" THEN a.s # b.s
    ELSE FALSE

-----------------------------------------------------------------------------
(* 1. Configuration policy *)

PRIMITIVE_TYPES == {"BOOLEAN", "ENUM", "FLOAT", "INT", "STRING"}

SKIP_IDB_COLLS ==
    {"batch_remove", "bl_rna", "filepath", "is_dirty", "is_saved",
     "orphans_purge", "rna_type", "temp_data", "user_map",
     "window_managers", "workspaces"}

SKIP_RNA_PATHS ==
    {"edges", "loops", "matrix_world", "pixels", "polygons", "rna_type",
     "tiles", "vertices"}

\* a Python set as its elements in iteration order
Members(seq) == {seq[i] : i \in 1..Len(seq)}

\* the list is built in iteration order, without sorted()
IterationOrder(seq) == seq

\* sorted(self.SKIP_RNA_PATHS)
SortedMembers(seq) == Sorted(Members(seq))

RECURSIVE JsonEscape(_, _)
\* json.dumps of the characters of a str: '"' and '\' are escaped
JsonEscape(str, i) ==
    IF i > Len(str) THEN ""
    ELSE LET c == SubSeq(str, i, i)
         IN  (IF c = "\"" THEN "\\\"" ELSE IF c = "\\" THEN "\\\\" ELSE c)
                \o JsonEscape(str, i + 1)

JsonString(str) == "\"" \o JsonEscape(str, 1) \o "\""

RECURSIVE JsonItems(_, _)
\* the elements of a list joined by the item separator ','
JsonItems(list, i) ==
    IF i > Len(list) THEN ""
    ELSE (IF i > 1 THEN "," ELSE "") \o JsonString(list[i]) \o JsonItems(list, i + 1)

JsonList(list) == "[" \o JsonItems(list, 1) \o "]"

\* json.dumps(policy, sort_keys=True, separators=(',', ':'))
PolicyStr(p) ==
    "{" \o JsonString("primitive_types") \o ":"
        \o JsonList(SortedMembers(p.primitive_types)) \o ","
        \o JsonString("skip_idb_collections") \o ":"
        \o JsonList(SortedMembers(p.skip_idb_collections)) \o ","
        \o JsonString("skip_rna_paths") \o ":"
        \o JsonList(SortedMembers(p.skip_rna_paths)) \o "}"

\* policy["policy_hash"] of _get_policy_metadata_json
_get_policy_metadata_json(p) == [policy_hash |-> Blake2s(PolicyStr(p))]

-----------------------------------------------------------------------------
(* 2. RNA serialisation helpers *)

\* _serialise for the values of the model: bool, int, float and str are
\* returned as they are, anything else becomes its str()
_serialise(val) ==
    IF val.t \in {"bool", "int", "float", "str"} THEN val
    ELSE PyStrV(PyStr(val))

\* dict assignment / dict.update: the entries of new replace those of old
Update(old, new) == new @@ old

EmptyDict == [k \in {} |-> PyNone]

\* the path is compared with the set instead of its suffixes
SkippedPathExact(path) == path \in SKIP_RNA_PATHS

SkippedPath(path) == \E s \in SKIP_RNA_PATHS : EndsWith(path, s)

\* subkey = getattr(item, "name", str(idx)); enumerate() counts from 0
SubKey(item, idx) == IF item.has_name THEN item.name ELSE Digits[idx + 1]

\* f"{raw.__class__.__name__}:{raw.name_full}"
IDRef(raw) == PyStrV(raw.cls \o ":" \o raw.name_full)

RECURSIVE _walk_rna(_, _)
RECURSIVE WalkProps(_, _, _, _)
RECURSIVE WalkItems(_, _, _, _)

\* the body of the loop "for prop in rna_obj.bl_rna.properties" for the
\* property at position i, applied to the dict out built so far
WalkProp(prop, base, out) ==
    LET path == IF base # "" THEN base \o "." \o prop.identifier
                ELSE prop.identifier
    IN  IF prop.is_readonly \/ prop.identifier = "rna_type" THEN out
        ELSE IF SkippedPath(path) THEN out
        ELSE IF prop.raises THEN Update(out, path :> PyStrV("<error:" \o prop.ex \o ">"))
        ELSE IF prop.type \in PRIMITIVE_TYPES
             THEN Update(out, path :> _serialise(prop.value))
        ELSE IF prop.type = "POINTER"
             THEN IF prop.is_none THEN Update(out, path :> PyNone)
                  ELSE IF prop.target.is_id
                       THEN Update(out, path :> IDRef(prop.target))
                       ELSE Update(out, _walk_rna(prop.target, path))
        ELSE IF prop.is_collection
             THEN LET r == WalkItems(prop.items, 1, path, out)
                  IN  IF r.raised
                      THEN Update(r.out, path :> PyStrV("<error:" \o r.ex \o ">"))
                      ELSE r.out
        ELSE Update(out, path :> _serialise(prop.value))

\* "for idx, item in enumerate(raw)" inside the try block: the entries written
\* before an exception stay in out
WalkItems(items, i, path, out) ==
    IF i > Len(items) THEN [out |-> out, raised |-> FALSE, ex |-> ""]
    ELSE LET item == items[i]
         IN  IF item.raises THEN [out |-> out, raised |-> TRUE, ex |-> item.ex]
             ELSE LET subpath == path \o "[" \o SubKey(item, i - 1) \o "]"
                      out2 == IF item.is_id
                              THEN Update(out, subpath :> IDRef(item))
                              ELSE Update(out, _walk_rna(item, subpath))
                  IN  WalkItems(items, i + 1, path, out2)

RECURSIVE WalkPropsAborting(_, _, _, _)
\* an exception raised by a property read ends the loop
WalkPropsAborting(props, i, base, out) ==
    IF i > Len(props) THEN out
    ELSE IF props[i].raises THEN out
    ELSE WalkPropsAborting(props, i + 1, base, WalkProp(props[i], base, out))

WalkProps(props, i, base, out) ==
    IF i > Len(props) THEN out
    ELSE WalkProps(props, i + 1, base, WalkProp(props[i], base, out))

_walk_rna(rna_obj, base) == WalkProps(rna_obj.props, 1, base, EmptyDict)

-----------------------------------------------------------------------------
(* 3. Identity, snapshot and per-block hash helpers *)

RECURSIVE FeedProps(_, _, _)
\* the bytes fed by "for k in sorted(props): h.update(k); h.update(str(props[k]))"
FeedProps(props, keys, i) ==
    IF i > Len(keys) THEN ""
    ELSE keys[i] \o PyStr(props[keys[i]]) \o FeedProps(props, keys, i + 1)

SortedProps(props) == Sorted(DOMAIN props)

_hash_datablock(idb) ==
    LET walked == _walk_rna(idb, "")
        props == IF "name" \in DOMAIN walked THEN walked
                 ELSE Update(walked, "name" :> PyStrV(idb.name_full))
    IN  [type |-> idb.cls,
         props |-> props,
         hash |-> Blake2s(FeedProps(props, SortedProps(props), 1))]

\* idb.keys() / idb[id_prop]: the custom properties of the datablock
HasCustom(idb, k) == \E p \in idb.custom : p[1] = k
CustomValue(idb, k) == (CHOOSE p \in idb.custom : p[1] = k)[2]

\* the Object rule is tried before the custom property
IdentityKeyObjectFirst(idb, block, idp) ==
    IF idb.is_object
    THEN LET data_name == IF idb.has_data THEN idb.data.name_full ELSE "NONE"
         IN  "Object:stable:" \o data_name \o ":" \o idb.type
    ELSE IF idp # "" /\ HasCustom(idb, idp)
    THEN idb.cls \o ":prop:" \o CustomValue(idb, idp)
    ELSE idb.cls \o ":hash:" \o block.hash

_identity_key(idb, block, idp) ==
    IF idp # "" /\ HasCustom(idb, idp)
    THEN idb.cls \o ":prop:" \o CustomValue(idb, idp)
    ELSE IF idb.is_object
    THEN LET data_name == IF idb.has_data THEN idb.data.name_full ELSE "NONE"
         IN  "Object:stable:" \o data_name \o ":" \o idb.type
    ELSE idb.cls \o ":hash:" \o block.hash

\* A Python dict is a sequence of entries in insertion order
DictKeys(d) == {d[i].key : i \in 1..Len(d)}
DictGet(d, key) == (CHOOSE i \in 1..Len(d) : d[i].key = key)
DictValue(d, key) == d[DictGet(d, key)].block
\* d[key] = block: a present key keeps its position, a new key is appended
DictSet(d, key, block) ==
    IF key \in DictKeys(d)
    THEN [d EXCEPT ![DictGet(d, key)] = [key |-> key, block |-> block]]
    ELSE Append(d, [key |-> key, block |-> block])

\* dir(bpy.data) is sorted; dunder names and SKIP_IDB_COLLS are filtered out
FilteredNames(doc) ==
    Sorted({doc[i].coll : i \in 1..Len(doc)} \ SKIP_IDB_COLLS)

RECURSIVE SnapshotEntities(_, _, _, _, _, _)
\* "for idb in collection" for the collection coll_name
SnapshotEntities(doc, i, coll_name, idp, ignore_linked, snapshot) ==
    IF i > Len(doc) THEN snapshot
    ELSE LET idb == doc[i]
             block == _hash_datablock(idb) @@ [bpy_path |-> coll_name]
             key == _identity_key(idb, block, idp)
             key2 == IF key \in DictKeys(snapshot)
                     THEN key \o ":" \o idb.name_full ELSE key
             rest(s) == SnapshotEntities(doc, i + 1, coll_name, idp, ignore_linked, s)
         IN  IF idb.coll # coll_name THEN rest(snapshot)
             ELSE IF ~idb.has_name_full THEN rest(snapshot)
             ELSE IF ignore_linked /\ idb.library THEN rest(snapshot)
             ELSE rest(DictSet(snapshot, key2, block))

RECURSIVE SnapshotColls(_, _, _, _, _, _)
\* "for coll_name in filtered_names"
SnapshotColls(doc, names, n, idp, ignore_linked, snapshot) ==
    IF n > Len(names) THEN snapshot
    ELSE SnapshotColls(doc, names, n + 1, idp, ignore_linked,
            SnapshotEntities(doc, 1, names[n], idp, ignore_linked, snapshot))

_snapshot_current(doc, idp, ignore_linked) ==
    SnapshotColls(doc, FilteredNames(doc), 1, idp, ignore_linked, <<>>)

-----------------------------------------------------------------------------
(* 4. File-level authored hash *)

RECURSIVE FeedSnapshot(_, _, _)
\* the bytes fed by "for key in sorted(snapshot): h.update(key); h.update(hash)"
FeedSnapshot(snapshot, keys, i) ==
    IF i > Len(keys) THEN ""
    ELSE keys[i] \o DictValue(snapshot, keys[i]).hash
                \o FeedSnapshot(snapshot, keys, i + 1)

\* the keys in insertion order, without sorted()
SnapshotInsertionOrder(snapshot) == [i \in 1..Len(snapshot) |-> snapshot[i].key]

SortedSnapshot(snapshot) == Sorted(DictKeys(snapshot))

_digest_from_snapshot(snapshot) ==
    Blake2s(FeedSnapshot(snapshot, SortedSnapshot(snapshot), 1))

-----------------------------------------------------------------------------
(* 4. Diff helpers *)

\* a != b never raises for the values of the model
_safe_cmp(a, b) == PyNe(a, b)

\* dict.get(k): None when the key is absent
Get(d, k) == IF k \in DOMAIN d THEN d[k] ELSE PyNone

_diff_props(pa, pb) ==
    LET differing == {k \in DOMAIN pa \cup DOMAIN pb : _safe_cmp(Get(pa, k), Get(pb, k))}
    IN  [k \in differing |-> [A |-> Get(pa, k), B |-> Get(pb, k)]]

\* block.get("bpy_path", "Other") and block["props"]["name"]
GroupOf(block) == IF "bpy_path" \in DOMAIN block THEN block.bpy_path ELSE "Other"
NameOf(block) == block.props["name"].s

\* groups[dtype] = {name: {}}: a later name of a group replaces the earlier ones
GroupByTypeOverwriting(item_keys, src_dict) ==
    LET dtypes == {GroupOf(DictValue(src_dict, key)) : key \in item_keys}
        last(d) == CHOOSE key \in item_keys : GroupOf(DictValue(src_dict, key)) = d
    IN  [d \in dtypes |-> [n \in {NameOf(DictValue(src_dict, last(d)))} |-> EmptyDict]]

\* _group_by_type with with_payload=False, the only way the code calls it:
\* groups.setdefault(dtype, {})[name] = {}
_group_by_type(item_keys, src_dict) ==
    LET dtypes == {GroupOf(DictValue(src_dict, key)) : key \in item_keys}
        names(d) == {NameOf(DictValue(src_dict, key)) :
                        key \in {k \in item_keys : GroupOf(DictValue(src_dict, k)) = d}}
    IN  [d \in dtypes |-> [n \in names(d) |-> EmptyDict]]

\* the field diff is computed without looking at the hashes
ChangedKeysNoHashGate(snap_a, snap_b) ==
    {key \in DictKeys(snap_a) \cap DictKeys(snap_b) :
        _diff_props(DictValue(snap_a, key).props,
                    DictValue(snap_b, key).props) # EmptyDict}

\* the keys of "for key in snap_a.keys() & snap_b.keys()" that pass both
\* "continue" statements
ChangedKeys(snap_a, snap_b) ==
    {key \in DictKeys(snap_a) \cap DictKeys(snap_b) :
        /\ DictValue(snap_a, key).hash # DictValue(snap_b, key).hash
        /\ _diff_props(DictValue(snap_a, key).props,
                       DictValue(snap_b, key).props) # EmptyDict}

\* the keys of snap_a are not subtracted
AddedKeysNoSubtract(snap_a, snap_b) == DictKeys(snap_b)

\* added_keys = snap_b.keys() - snap_a.keys()
AddedKeys(snap_a, snap_b) == DictKeys(snap_b) \ DictKeys(snap_a)

\* the keys of snap_b are not subtracted
RemovedKeysNoSubtract(snap_a, snap_b) == DictKeys(snap_a)

\* removed_keys = snap_a.keys() - snap_b.keys()
RemovedKeys(snap_a, snap_b) == DictKeys(snap_a) \ DictKeys(snap_b)

\* the name is read from the original snapshot
ChangedNameOriginal(snap_a, snap_b, key) == NameOf(DictValue(snap_a, key))

\* name = snap_b[key]["props"]["name"]
ChangedName(snap_a, snap_b, key) == NameOf(DictValue(snap_b, key))

_diff_snapshots(snap_a, snap_b) ==
    LET added_keys == AddedKeys(snap_a, snap_b)
        removed_keys == RemovedKeys(snap_a, snap_b)
        keys == ChangedKeys(snap_a, snap_b)
        dtypeOf(key) == DictValue(snap_b, key).bpy_path
        nameOf(key) == ChangedName(snap_a, snap_b, key)
        delta(key) == _diff_props(DictValue(snap_a, key).props,
                                  DictValue(snap_b, key).props)
        changed ==
            [d \in {dtypeOf(key) : key \in keys} |->
                [n \in {nameOf(key) : key \in {k \in keys : dtypeOf(k) = d}} |->
                    delta(CHOOSE key \in keys : dtypeOf(key) = d /\ nameOf(key) = n)]]
    IN  [added |-> _group_by_type(added_keys, snap_b),
         removed |-> _group_by_type(removed_keys, snap_a),
         changed |-> changed]

-----------------------------------------------------------------------------
(* The host: property schemas and datablocks (bpy.types, bpy.data) *)

Prim(identifier, type, value) ==
    [identifier |-> identifier, type |-> type, is_readonly |-> FALSE,
     is_collection |-> FALSE, raises |-> FALSE, value |-> value]

ReadOnly(identifier, type, value) ==
    [identifier |-> identifier, type |-> type, is_readonly |-> TRUE,
     is_collection |-> FALSE, raises |-> FALSE, value |-> value]

Pointer(identifier, target) ==
    [identifier |-> identifier, type |-> "POINTER", is_readonly |-> FALSE,
     is_collection |-> FALSE, raises |-> FALSE, is_none |-> FALSE, target |-> target]

\* a property whose getattr raises an exception with message ex
Raising(identifier, type, ex) ==
    [identifier |-> identifier, type |-> type, is_readonly |-> FALSE,
     is_collection |-> FALSE, raises |-> TRUE, ex |-> ex]

Collection(identifier, items) ==
    [identifier |-> identifier, type |-> "COLLECTION", is_readonly |-> FALSE,
     is_collection |-> TRUE, raises |-> FALSE, items |-> items]

\* an embedded structure (no bpy.types.ID) without a name attribute
Struct(props) ==
    [is_id |-> FALSE, cls |-> "bpy_struct", has_name |-> FALSE, raises |-> FALSE,
     props |-> props]

\* an embedded structure with a name attribute
NamedStruct(name, props) ==
    [is_id |-> FALSE, cls |-> "bpy_struct", has_name |-> TRUE, name |-> name,
     raises |-> FALSE, props |-> props]

\* a collection element whose access raises an exception with message ex
RaisingItem(ex) == [raises |-> TRUE, ex |-> ex]

PointerNone(identifier) ==
    [identifier |-> identifier, type |-> "POINTER", is_readonly |-> FALSE,
     is_collection |-> FALSE, raises |-> FALSE, is_none |-> TRUE]

\* a reference to another top-level datablock (isinstance(raw, bpy.types.ID))
IDBlock(cls, name_full) ==
    [is_id |-> TRUE, cls |-> cls, name_full |-> name_full, raises |-> FALSE,
     has_name |-> TRUE, name |-> name_full]

NoCustom == {}

\* bpy.types.Object: name, data, hide_select, matrix_world, type (read-only)
Object(name, data_name, otype, hide_select, matrix_world, custom) ==
    [coll |-> "objects", cls |-> "Object", is_id |-> TRUE, is_object |-> TRUE,
     has_name_full |-> TRUE, name_full |-> name, library |-> FALSE,
     custom |-> custom, has_data |-> data_name # "",
     data |-> IDBlock("Mesh", data_name), type |-> otype,
     props |-> << Prim("name", "STRING", PyStrV(name)),
                  IF data_name # "" THEN Pointer("data", IDBlock("Mesh", data_name))
                  ELSE PointerNone("data"),
                  Prim("hide_select", "BOOLEAN", PyBool(hide_select)),
                  Prim("matrix_world", "FLOAT", PyFloat(matrix_world)),
                  ReadOnly("type", "ENUM", PyStrV(otype)) >>]

\* bpy.types.Image: filepath, name, pixels
Image(name, filepath, pixels, custom) ==
    [coll |-> "images", cls |-> "Image", is_id |-> TRUE, is_object |-> FALSE,
     has_name_full |-> TRUE, name_full |-> name, library |-> FALSE,
     custom |-> custom,
     props |-> << Prim("filepath", "STRING", PyStrV(filepath)),
                  Prim("name", "STRING", PyStrV(name)),
                  Prim("pixels", "FLOAT", PyFloat(pixels)) >>]

\* a datablock of bpy.data.workspaces, a collection of SKIP_IDB_COLLS
WorkSpace(name) ==
    [coll |-> "workspaces", cls |-> "WorkSpace", is_id |-> TRUE, is_object |-> FALSE,
     has_name_full |-> TRUE, name_full |-> name, library |-> FALSE,
     custom |-> NoCustom,
     props |-> << Prim("name", "STRING", PyStrV(name)) >>]

\* a datablock linked from a library: idb.library is set
Linked(idb, name_full) == [idb EXCEPT !.library = TRUE, !.name_full = name_full]

\* an element of an iterable attribute of bpy.data that is no datablock
\* (bpy.data.version is a tuple of ints): it has no name_full
VersionItem ==
    [coll |-> "version", has_name_full |-> FALSE, name_full |-> "", library |-> FALSE]

-----------------------------------------------------------------------------
(* Documents *)

\* datablocks of the two files that are compared
PoolDiff ==
    { Object("a", "M", "MESH", FALSE, 0, NoCustom),
      Object("b", "M", "MESH", FALSE, 0, NoCustom),
      Object("c", "M", "MESH", FALSE, 0, NoCustom),
      Object("a", "M", "MESH", TRUE, 0, NoCustom),
      Object("a", "M", "MESH", FALSE, 1, NoCustom),
      Image("nameb", "x", 0, NoCustom),
      Image("b", "xname", 0, {<<"uid", "7">>}) }

\* an Empty: an Object without data, with its empty_display_size
Empty(name, size) ==
    [Object(name, "", "EMPTY", FALSE, 0, NoCustom)
        EXCEPT !.props = @ \o <<Prim("empty_display_size", "FLOAT", size)>>]

\* datablocks of two files whose float properties are compared
PoolFields ==
    { Empty("e", PyFloat(0)),
      Empty("e", PyNegZero),
      Empty("e", PyFloat(1)),
      Empty("f", PyFloat(0)) }

\* datablocks of the file that is enumerated in two orders
PoolSnap ==
    { Object("a", "M", "MESH", FALSE, 0, NoCustom),
      Object("MESH", "M", "MESH", FALSE, 0, NoCustom),
      Object("0", "M:MESH", "MESH", FALSE, 0, NoCustom),
      Object("e", "", "EMPTY", FALSE, 0, {<<"uid", "7">>}),
      Image("b", "x", 0, NoCustom),
      Linked(Image("b", "x", 1, NoCustom), "b [L]"),
      WorkSpace("w"),
      VersionItem }

\* property schemas of the datablock that is walked: at most one plain
\* property followed by at most one pointer or collection property
Leaves ==
    { Prim("co", "FLOAT", PyFloat(1)),
      Prim("vertices", "INT", PyInt(2)),
      Prim("uv_tiles", "INT", PyInt(3)),
      ReadOnly("users", "INT", PyInt(1)),
      Raising("color", "FLOAT", "e") }

LeafSeqs == {<<>>} \cup {<<p>> : p \in Leaves}

RECURSIVE PropSeqs(_)
PropSeqs(depth) ==
    LET flat == { <<PointerNone("parent")>>,
                  <<Pointer("parent", IDBlock("Object", "b"))>>,
                  <<Collection("children", <<IDBlock("Object", "c")>>)>>,
                  <<Collection("modifiers", <<RaisingItem("e")>>)>> }
        nested == IF depth = 0 THEN {}
                  ELSE UNION { { <<Pointer("data", Struct(ps))>>,
                                 <<Collection("vertices", <<Struct(ps)>>)>>,
                                 <<Collection("modifiers", <<Struct(ps)>>)>>,
                                 <<Collection("modifiers", <<NamedStruct("edges", ps)>>)>> }
                               : ps \in PropSeqs(depth - 1) }
    IN  IF depth = 0 THEN LeafSeqs
        ELSE {l \o n : l \in LeafSeqs, n \in {<<>>} \cup flat \cup nested}

\* a bpy.types.Mesh datablock with the property schema props
Mesh(name, props) ==
    [coll |-> "meshes", cls |-> "Mesh", is_id |-> TRUE, is_object |-> FALSE,
     has_name_full |-> TRUE, name_full |-> name, library |-> FALSE,
     custom |-> NoCustom, props |-> props]

IdProps == {"", "uid"}

\* the host keeps the names of the datablocks of one collection and one
\* library distinct
UniqueNames(doc) ==
    \A i, j \in 1..Len(doc) :
        i # j => \/ doc[i].coll # doc[j].coll
                 \/ doc[i].library # doc[j].library
                 \/ doc[i].name_full # doc[j].name_full

\* a document lists bpy.data collection by collection, the collections in
\* the order of dir(bpy.data)
ByCollection(doc) ==
    \A i, j \in 1..Len(doc) :
        i < j => doc[i].coll = doc[j].coll \/ StrLess(doc[i].coll, doc[j].coll)

SeqsUpTo(S, n) == UNION {[1..m -> S] : m \in 0..n}

Documents(pool, n) ==
    {doc \in SeqsUpTo(pool, n) : UniqueNames(doc) /\ ByCollection(doc)}

\* the same datablocks, each collection enumerated by the host in another order
Reorderings(doc) ==
    {d \in {[i \in 1..Len(doc) |-> doc[f[i]]] : f \in Permutations(1..Len(doc))} :
        ByCollection(d)}

\* elements of a collection property: a datablock, named and unnamed
\* embedded structures, an element whose access raises
PoolItems ==
    { IDBlock("Object", "c"),
      NamedStruct("Value", <<Prim("co", "FLOAT", PyFloat(1))>>),
      NamedStruct("Value", <<Prim("co", "FLOAT", PyFloat(2))>>),
      NamedStruct("1", <<Prim("co", "FLOAT", PyFloat(1))>>),
      Struct(<<Prim("co", "FLOAT", PyFloat(2))>>),
      RaisingItem("e") }

\* the properties listed before and after the collection property
PropsBefore ==
    { <<>>,
      <<Prim("co", "FLOAT", PyFloat(1))>>,
      <<Raising("color", "FLOAT", "e")>> }

PropsAfter ==
    { <<>>,
      <<Prim("hide_render", "BOOLEAN", PyBool(TRUE))>>,
      <<Raising("show", "BOOLEAN", "e")>>,
      <<Pointer("shape_keys", Struct(<<Raising("value", "FLOAT", "e"),
                                       Prim("slider_max", "FLOAT", PyFloat(1))>>))>> }

\* datablocks with a collection property of up to MaxItems elements
Elements ==
    { Mesh("m", before \o <<Collection("modifiers", items)>> \o after) :
        before \in PropsBefore, items \in SeqsUpTo(PoolItems, MaxItems),
        after \in PropsAfter }

-----------------------------------------------------------------------------
(* 5. Public API *)

NoResult == [error |-> "not run"]

\* the BlendDiff instances of a session
Engines == {"e1", "e2"}

NoCall == [op |-> "none"]

\* the parts of the state a specification does not use
EngineIdle ==
    /\ docA = <<>>
    /\ docB = <<>>
    /\ id_prop = ""
    /\ active = "none"
    /\ snapA = <<>>
    /\ snapB = <<>>
    /\ result = NoResult
    /\ hashA = ""
    /\ hashB = ""

WalkIdle ==
    /\ datablock = VersionItem
    /\ hashed = NoResult
    /\ identity = ""

PropsIdle ==
    /\ props_a = EmptyDict
    /\ props_b = EmptyDict
    /\ props_delta = EmptyDict

PolicyIdle ==
    /\ policy = <<>>
    /\ policy_hash = <<>>

\* BlendDiff.__init__: self._cache = None
SessionIdle ==
    /\ current = <<>>
    /\ _cache = [self \in Engines |-> PyNone]
    /\ call = NoCall
    /\ returned = PyNone
    /\ snap_current = <<>>
    /\ snap_other = <<>>
    /\ events = <<>>

CliIdle ==
    /\ sys_argv = <<>>
    /\ _BLENDER = TRUE
    /\ launch = "none"
    /\ payload = NoResult
    /\ output = [stdout |-> PyNone, captured |-> PyNone, file_out |-> PyNone]
    /\ exit_code = -1

GraphIdle ==
    /\ graph = <<>>
    /\ stack = <<>>

AddonIdle ==
    /\ is_dirty = FALSE
    /\ compare_filepath = ""
    /\ excluded = {}
    /\ selected = {}

Init ==
    /\ docA \in Documents(PoolDiff, MaxEntities)
    /\ docB \in Documents(PoolDiff, MaxEntities)
    /\ id_prop \in IdProps
    /\ active = "none"
    /\ pc = "start"
    /\ snapA = <<>>
    /\ snapB = <<>>
    /\ result = NoResult
    /\ hashA = ""
    /\ hashB = ""
    /\ WalkIdle /\ PropsIdle /\ PolicyIdle /\ SessionIdle /\ CliIdle /\ GraphIdle /\ AddonIdle

InitOrder ==
    /\ docA \in Documents(PoolSnap, MaxSnapEntities)
    /\ docB \in Reorderings(docA)
    /\ id_prop \in IdProps
    /\ active = "none"
    /\ pc = "start"
    /\ snapA = <<>>
    /\ snapB = <<>>
    /\ result = NoResult
    /\ hashA = ""
    /\ hashB = ""
    /\ WalkIdle /\ PropsIdle /\ PolicyIdle /\ SessionIdle /\ CliIdle /\ GraphIdle /\ AddonIdle

InitFields ==
    /\ docA \in Documents(PoolFields, MaxEntities)
    /\ docB \in Documents(PoolFields, MaxEntities)
    /\ id_prop \in IdProps
    /\ active = "none"
    /\ pc = "start"
    /\ snapA = <<>>
    /\ snapB = <<>>
    /\ result = NoResult
    /\ hashA = ""
    /\ hashB = ""
    /\ WalkIdle /\ PropsIdle /\ PolicyIdle /\ SessionIdle /\ CliIdle /\ GraphIdle /\ AddonIdle

\* bpy.ops.wm.open_mainfile(filepath=path): the document of a path
Document(path) == IF path = "A" THEN docA ELSE docB

\* _snapshot_file: the snapshot taken once path is the active document
_snapshot_file(path, idp) == _snapshot_current(Document(path), idp, TRUE)

\* the outcome of a call that ends with an exception reaching the caller
Raised(ex) == [raised |-> ex]

\* the MemoryError is not caught
MemoryErrorRaised == Raised("MemoryError")

\* the value of "except MemoryError: return ..."
MemoryErrorResult == [error |-> "MemoryError", stage |-> "snapshot"]

\* where the host runs out of memory during a call that takes two snapshots
MemoryErrors == {"none", "first", "second"}

\* diff_blend_files(file-original, file-modified, id_prop=id_prop); a
\* MemoryError raised by either _snapshot_file is caught
diff_blend_files ==
    /\ pc = "start"
    /\ \E oom \in MemoryErrors :
        /\ IF oom = "none"
           THEN /\ snapA' = _snapshot_file("A", id_prop)
                /\ snapB' = _snapshot_file("B", id_prop)
                /\ result' = _diff_snapshots(snapA', snapB')
                /\ active' = "B"
                /\ current' = Document("B")
                /\ events' = <<"open_mainfile:A", "snapshot_current",
                                "open_mainfile:B", "snapshot_current">>
                /\ pc' = "diffed"
           ELSE /\ snapA' = <<>>
                /\ snapB' = <<>>
                /\ result' = MemoryErrorResult
                /\ active' = IF oom = "first" THEN "A" ELSE "B"
                /\ current' = Document(active')
                /\ events' = IF oom = "first" THEN <<"open_mainfile:A">>
                              ELSE <<"open_mainfile:A", "snapshot_current",
                                     "open_mainfile:B">>
                /\ pc' = "failed"
        /\ call' = [op |-> "diff_blend_files", oom |-> oom]
    /\ returned' = result'
    /\ snap_current' = <<>>
    /\ snap_other' = <<>>
    /\ UNCHANGED <<docA, docB, id_prop, hashA, hashB>>
    /\ UNCHANGED _cache
    /\ UNCHANGED <<walkVars, propsVars, policyVars, cliVars, graphVars, addonVars>>

\* hash_blend_file(file-original, id_prop=id_prop); a MemoryError raised by
\* _snapshot_file is not caught and reaches the caller
hash_blend_file_original ==
    /\ pc = "diffed"
    /\ \E oom \in BOOLEAN :
        IF ~oom
        THEN /\ hashA' = _digest_from_snapshot(_snapshot_file("A", id_prop))
             /\ pc' = "hashed"
        ELSE /\ hashA' = hashA
             /\ pc' = "raised"
    /\ active' = "A"
    /\ current' = Document("A")
    /\ call' = [op |-> "hash_blend_file"]
    /\ returned' = IF pc' = "raised" THEN MemoryErrorRaised ELSE PyStrV(hashA')
    /\ events' = <<"open_mainfile:A">> \o (IF pc' = "raised" THEN <<>> ELSE <<"snapshot_current">>)
    /\ snap_current' = <<>>
    /\ snap_other' = <<>>
    /\ UNCHANGED <<docA, docB, id_prop, snapA, snapB, result, hashB>>
    /\ UNCHANGED _cache
    /\ UNCHANGED <<walkVars, propsVars, policyVars, cliVars, graphVars, addonVars>>

\* hash_blend_file(file-modified, id_prop=id_prop)
hash_blend_file_modified ==
    /\ pc = "hashed"
    /\ \E oom \in BOOLEAN :
        IF ~oom
        THEN /\ hashB' = _digest_from_snapshot(_snapshot_file("B", id_prop))
             /\ pc' = "done"
        ELSE /\ hashB' = hashB
             /\ pc' = "raised"
    /\ active' = "B"
    /\ current' = Document("B")
    /\ call' = [op |-> "hash_blend_file"]
    /\ returned' = IF pc' = "raised" THEN MemoryErrorRaised ELSE PyStrV(hashB')
    /\ events' = <<"open_mainfile:B">> \o (IF pc' = "raised" THEN <<>> ELSE <<"snapshot_current">>)
    /\ snap_current' = <<>>
    /\ snap_other' = <<>>
    /\ UNCHANGED <<docA, docB, id_prop, snapA, snapB, result, hashA>>
    /\ UNCHANGED _cache
    /\ UNCHANGED <<walkVars, propsVars, policyVars, cliVars, graphVars, addonVars>>

InitWalk ==
    /\ EngineIdle
    /\ pc = "start"
    /\ datablock \in {Mesh("m", ps) : ps \in PropSeqs(MaxDepth)}
    /\ hashed = NoResult
    /\ identity = ""
    /\ PropsIdle /\ PolicyIdle /\ SessionIdle /\ CliIdle /\ GraphIdle /\ AddonIdle

\* _hash_datablock(datablock), the walk of the datablock included
hash_datablock ==
    /\ pc = "start"
    /\ hashed' = _hash_datablock(datablock)
    /\ pc' = "walked"
    /\ UNCHANGED <<docA, docB, id_prop, active, snapA, snapB, result, hashA, hashB>>
    /\ UNCHANGED <<datablock, identity>>
    /\ UNCHANGED <<propsVars, policyVars, sessionVars, cliVars, graphVars, addonVars>>

NextWalk == hash_datablock

InitElements ==
    /\ EngineIdle
    /\ pc = "start"
    /\ datablock \in Elements
    /\ hashed = NoResult
    /\ identity = ""
    /\ PropsIdle /\ PolicyIdle /\ SessionIdle /\ CliIdle /\ GraphIdle /\ AddonIdle

\* the props maps handed to _diff_props
PropPaths == {"location", "parent"}

PropValues == {PyNone, PyInt(1), PyInt(2), PyBool(TRUE), PyStrV("1")}

PropsMaps == UNION {[paths -> PropValues] : paths \in SUBSET PropPaths}

InitProps ==
    /\ EngineIdle
    /\ pc = "start"
    /\ props_a \in PropsMaps
    /\ props_b \in PropsMaps
    /\ props_delta = EmptyDict
    /\ WalkIdle /\ PolicyIdle /\ SessionIdle /\ CliIdle /\ GraphIdle /\ AddonIdle

\* _diff_props(props_a, props_b)
diff_props ==
    /\ pc = "start"
    /\ props_delta' = _diff_props(props_a, props_b)
    /\ pc' = "compared"
    /\ UNCHANGED <<docA, docB, id_prop, active, snapA, snapB, result, hashA, hashB>>
    /\ UNCHANGED <<props_a, props_b>>
    /\ UNCHANGED <<walkVars, policyVars, sessionVars, cliVars, graphVars, addonVars>>

NextProps == diff_props

\* the datablocks handed to _identity_key and the custom properties they carry
Customs ==
    { NoCustom, {<<"uid", "7">>}, {<<"tag", "7">>}, {<<"uid", "7">>, <<"tag", "8">>} }

PoolIdentity ==
    { Object(n, d[1], d[2], FALSE, 0, c) :
        n \in {"a", "b"},
        d \in {<<"M", "MESH">>, <<"N", "MESH">>, <<"", "EMPTY">>},
        c \in Customs }
    \cup { Image("b", f, 0, c) : f \in {"x", "y"}, c \in Customs }

InitIdentity ==
    /\ docA = <<>>
    /\ docB = <<>>
    /\ id_prop \in {"", "uid", "tag"}
    /\ active = "none"
    /\ pc = "start"
    /\ snapA = <<>>
    /\ snapB = <<>>
    /\ result = NoResult
    /\ hashA = ""
    /\ hashB = ""
    /\ datablock \in PoolIdentity
    /\ hashed = NoResult
    /\ identity = ""
    /\ PropsIdle /\ PolicyIdle /\ SessionIdle /\ CliIdle /\ GraphIdle /\ AddonIdle

\* block = _hash_datablock(idb); key = _identity_key(idb, block, id_prop)
identity_key ==
    /\ pc = "start"
    /\ hashed' = _hash_datablock(datablock)
    /\ identity' = _identity_key(datablock, hashed', id_prop)
    /\ pc' = "keyed"
    /\ UNCHANGED <<docA, docB, id_prop, active, snapA, snapB, result, hashA, hashB>>
    /\ UNCHANGED datablock
    /\ UNCHANGED <<propsVars, policyVars, sessionVars, cliVars, graphVars, addonVars>>

NextIdentity == identity_key

\* the elements of the sets of S in every iteration order
Orders(S) ==
    UNION { {f \in [1..Cardinality(T) -> T] : \A i, j \in DOMAIN f : i # j => f[i] # f[j]}
            : T \in S }

\* the policy sets of a build: class attributes of BlendDiff
Policies ==
    [primitive_types : Orders({{"INT"}, {"INT", "FLOAT"}}),
     skip_idb_collections : Orders(SUBSET {"bl_rna", "workspaces"}),
     skip_rna_paths : Orders({T \in SUBSET {"edges", "pixels", "edges\",\"pixels"} :
                                Cardinality(T) <= 2})]

InitPolicy ==
    /\ EngineIdle
    /\ pc = "start"
    /\ policy \in Policies \X Policies
    /\ policy_hash = <<>>
    /\ WalkIdle /\ PropsIdle /\ SessionIdle /\ CliIdle /\ GraphIdle /\ AddonIdle

\* _get_policy_metadata_json() of the two builds
get_policy_metadata_json ==
    /\ pc = "start"
    /\ policy_hash' = << _get_policy_metadata_json(policy[1]).policy_hash,
                         _get_policy_metadata_json(policy[2]).policy_hash >>
    /\ pc' = "policy"
    /\ UNCHANGED <<docA, docB, id_prop, active, snapA, snapB, result, hashA, hashB>>
    /\ UNCHANGED policy
    /\ UNCHANGED <<walkVars, propsVars, sessionVars, cliVars, graphVars, addonVars>>

NextPolicy == get_policy_metadata_json

\* the host while a call runs: bpy.data.filepath, bpy.data and the host
\* operations made so far
Host(filepath, data) == [active |-> filepath, current |-> data, events |-> <<>>]

\* bpy.ops.wm.open_mainfile(filepath=path, load_ui=False)
OpenMainfile(h, path) ==
    [active |-> path, current |-> Document(path),
     events |-> Append(h.events, "open_mainfile:" \o path)]

\* cls._snapshot_current(id_prop) on the document in memory
SnapshotCurrent(h) ==
    [snapshot |-> _snapshot_current(h.current, id_prop, TRUE),
     host |-> [h EXCEPT !.events = Append(@, "snapshot_current")]]

\* the original file is never loaded again
ReloadNever(h, current_fp) == h

\* if current_fp: bpy.ops.wm.open_mainfile(filepath=current_fp, load_ui=False)
ReloadOriginal(h, current_fp) ==
    IF current_fp # "" THEN OpenMainfile(h, current_fp) ELSE h

\* one cache for all instances
SetCacheShared(cache, self, value) == [e \in Engines |-> value]

\* self._cache = value
SetCache(cache, self, value) == [cache EXCEPT ![self] = value]

\* the failed call stores its error result
CacheAfterStoringError(cache, self, oom, diff) ==
    SetCache(cache, self, IF oom = "none" THEN diff ELSE MemoryErrorResult)

\* the cache after diff_current_vs_other: the assignment to self._cache is
\* reached only when no MemoryError was raised before it
CacheAfter(cache, self, oom, diff) ==
    IF oom = "none" THEN SetCache(cache, self, diff) ELSE cache

\* the documents of a session
PoolSession ==
    { Object("a", "M", "MESH", FALSE, 0, NoCustom),
      Object("a", "M", "MESH", TRUE, 0, NoCustom),
      Object("b", "N", "MESH", FALSE, 0, NoCustom) }

SessionDocs == {<<idb>> : idb \in PoolSession}

\* a session of the host: the document in memory is file A or has no file
InitSession ==
    /\ docA \in SessionDocs
    /\ docB \in SessionDocs \ {docA}
    /\ id_prop = ""
    /\ active \in {"none", "A"}
    /\ pc = "start"
    /\ snapA = <<>>
    /\ snapB = <<>>
    /\ result = NoResult
    /\ hashA = ""
    /\ hashB = ""
    /\ current = docA
    /\ _cache = [self \in Engines |-> PyNone]
    /\ call = NoCall
    /\ returned = PyNone
    /\ snap_current = <<>>
    /\ snap_other = <<>>
    /\ events = <<>>
    /\ WalkIdle /\ PropsIdle /\ PolicyIdle /\ CliIdle /\ GraphIdle /\ AddonIdle

\* the end of diff_current_vs_other: the host the call leaves behind, the
\* cache and the returned value, for a call that ran out of memory in the
\* first snapshot (oom = "first"), in the second, or not at all
Return(h0, s1, h2, s3, h4, forward, backward) ==
    \E self \in Engines, reverse \in BOOLEAN, oom \in MemoryErrors :
        LET diff == IF ~reverse THEN forward ELSE backward
            h == CASE oom = "first" -> h0
                   [] oom = "second" -> h2
                   [] OTHER -> h4
        IN  /\ call' = [op |-> "diff_current_vs_other", self |-> self,
                        reverse |-> reverse, oom |-> oom,
                        filepath |-> active, data |-> current]
            /\ active' = h.active
            /\ current' = h.current
            /\ events' = h.events
            /\ snap_current' = IF oom = "first" THEN <<>> ELSE s1.snapshot
            /\ snap_other' = IF oom = "none" THEN s3.snapshot ELSE <<>>
            /\ _cache' = CacheAfter(_cache, self, oom, diff)
            /\ returned' = IF oom = "none" THEN diff ELSE MemoryErrorResult

\* self.diff_current_vs_other(path_other, reverse=reverse, id_prop=id_prop);
\* the other file is file B
diff_current_vs_other ==
    /\ LET path_other == "B"
           current_fp == IF active = "none" THEN "" ELSE active
           h0 == Host(active, current)
           s1 == SnapshotCurrent(h0)
           h2 == OpenMainfile(s1.host, path_other)
           s3 == SnapshotCurrent(h2)
           h4 == ReloadOriginal(s3.host, current_fp)
       IN  Return(h0, s1, h2, s3, h4,
                  _diff_snapshots(s1.snapshot, s3.snapshot),
                  _diff_snapshots(s3.snapshot, s1.snapshot))
    /\ UNCHANGED <<docA, docB, id_prop, pc, snapA, snapB, result, hashA, hashB>>
    /\ UNCHANGED <<walkVars, propsVars, policyVars, cliVars, graphVars, addonVars>>

\* self.get_diff_cache()
get_diff_cache ==
    \E self \in Engines :
        /\ call' = [op |-> "get_diff_cache", self |-> self]
        /\ returned' = _cache[self]
        /\ snap_current' = <<>>
        /\ snap_other' = <<>>
        /\ events' = <<>>
        /\ UNCHANGED <<current, _cache>>
        /\ UNCHANGED <<engineVars, walkVars, propsVars, policyVars, cliVars, graphVars, addonVars>>

\* self.set_invalid_cache()
set_invalid_cache ==
    \E self \in Engines :
        /\ call' = [op |-> "set_invalid_cache", self |-> self]
        /\ _cache' = SetCache(_cache, self, PyNone)
        /\ returned' = PyNone
        /\ snap_current' = <<>>
        /\ snap_other' = <<>>
        /\ events' = <<>>
        /\ UNCHANGED current
        /\ UNCHANGED <<engineVars, walkVars, propsVars, policyVars, cliVars, graphVars, addonVars>>

\* cls.hash_current_file(id_prop=id_prop): the document in memory is
\* snapshotted, no file is loaded; a MemoryError is not caught
hash_current_file ==
    /\ \E oom \in BOOLEAN :
        /\ returned' = IF oom THEN MemoryErrorRaised
                       ELSE PyStrV(_digest_from_snapshot(
                                _snapshot_current(current, id_prop, TRUE)))
        /\ events' = IF oom THEN <<>> ELSE <<"snapshot_current">>
    /\ call' = [op |-> "hash_current_file"]
    /\ snap_current' = <<>>
    /\ snap_other' = <<>>
    /\ UNCHANGED <<current, _cache>>
    /\ UNCHANGED <<engineVars, walkVars, propsVars, policyVars, cliVars, graphVars, addonVars>>

\* a session in which file A holds the Object a
InitCache ==
    /\ InitSession
    /\ docA = <<Object("a", "M", "MESH", FALSE, 0, NoCustom)>>

\* every call of the public API on the instances of a session
NextCache ==
    \/ diff_blend_files
    \/ hash_blend_file_original
    \/ hash_blend_file_modified
    \/ hash_current_file
    \/ diff_current_vs_other
    \/ get_diff_cache
    \/ set_invalid_cache

NextSession ==
    \/ diff_blend_files
    \/ diff_current_vs_other
    \/ get_diff_cache
    \/ set_invalid_cache

-----------------------------------------------------------------------------
(* 6. Command line *)

\* the command lines: '--blender-exec' and '--' as the script finds them in
\* sys.argv, and the blenddiff arguments ("" when an option is not given)
CommandLines ==
    [blender_exec : BOOLEAN, separator : BOOLEAN,
     hash : BOOLEAN, diff : BOOLEAN,
     hash_file : {"", "A"}, file_original : {"", "A"}, file_modified : {"", "B"},
     stdout : BOOLEAN, file_out : {"", "out.json"}]

\* BlendDiffArgParser().parse_args(argv) ends in self.error (SystemExit 2):
\* --hash and --diff exclude each other and one of them is required, so do
\* --file-out and --stdout; --hash needs --hash-file, --diff needs both files
ParseError(args) ==
    \/ args.hash = args.diff
    \/ args.stdout = (args.file_out # "")
    \/ args.hash /\ args.hash_file = ""
    \/ args.diff /\ (args.file_original = "" \/ args.file_modified = "")

\* the policy sets of the class, as _get_policy_metadata_json reads them
ClassPolicy ==
    [primitive_types |-> Sorted(PRIMITIVE_TYPES),
     skip_idb_collections |-> Sorted(SKIP_IDB_COLLS),
     skip_rna_paths |-> Sorted(SKIP_RNA_PATHS)]

\* {**_get_policy_metadata_json(), **_get_codebase_hash()}
Metadata ==
    [policy_hash |-> _get_policy_metadata_json(ClassPolicy).policy_hash,
     codebase_hash |-> Blake2s("class BlendDiff")]

\* payload = {"file_hash": digest, "metadata": metadata}
HashPayload(path) ==
    [file_hash |-> _digest_from_snapshot(_snapshot_file(path, id_prop)),
     metadata |-> Metadata]

\* HASH mode is entered on "if args.hash_file"
HashMode(args) == args.hash_file # ""

\* print(payload_str) and fh.write(payload_str); the stdout of a Blender
\* spawned by the wrapper is captured by the wrapper
Write(args, value, spawned) ==
    [stdout |-> IF args.stdout /\ ~spawned THEN value ELSE PyNone,
     captured |-> IF args.stdout /\ spawned THEN value ELSE PyNone,
     file_out |-> IF args.file_out # "" THEN value ELSE PyNone]

NoOutput == [stdout |-> PyNone, captured |-> PyNone, file_out |-> PyNone]

\* exit status of a Blender whose --python script ended with an exception:
\* 0, or 1 when Blender was started with --python-exit-code 1
ScriptErrorExitCodes == {0, 1}

InitCli ==
    /\ docA \in SessionDocs
    /\ docB \in SessionDocs \ {docA}
    /\ id_prop = ""
    /\ active = "none"
    /\ pc = "start"
    /\ snapA = <<>>
    /\ snapB = <<>>
    /\ result = NoResult
    /\ hashA = ""
    /\ hashB = ""
    /\ sys_argv \in CommandLines
    /\ _BLENDER \in BOOLEAN
    /\ launch = "none"
    /\ payload = NoResult
    /\ output = NoOutput
    /\ exit_code = -1
    /\ WalkIdle /\ PropsIdle /\ PolicyIdle /\ SessionIdle /\ GraphIdle /\ AddonIdle

\* if __name__ == "__main__": the dispatch on _BLENDER and '"--" in sys.argv'
main ==
    /\ pc = "start"
    /\ IF _BLENDER /\ sys_argv.separator
       THEN /\ launch' = "direct"
            /\ pc' = "direct"
            /\ exit_code' = exit_code
       ELSE IF ~_BLENDER /\ ~sys_argv.separator
       THEN /\ launch' = "wrapper"
            /\ pc' = "wrapper"
            /\ exit_code' = exit_code
       ELSE /\ launch' = "usage"
            /\ pc' = "exited"
            /\ exit_code' = 1
    /\ UNCHANGED <<sys_argv, _BLENDER, payload, output>>
    /\ UNCHANGED <<docA, docB, id_prop, active, snapA, snapB, result, hashA, hashB>>
    /\ UNCHANGED <<walkVars, propsVars, policyVars, sessionVars, graphVars, addonVars>>

\* _run_directly_from_args(), in the Blender started by the user or in the
\* one spawned by the wrapper.  The second test of the two files, in the
\* DIFF branch, never fails once parse_args has accepted the arguments.
_run_directly_from_args ==
    /\ pc \in {"direct", "spawned"}
    /\ LET args == sys_argv
           spawned == pc = "spawned"
       IN  IF ParseError(args)
           THEN /\ call' = [op |-> "_run_directly_from_args", parsed |-> FALSE,
                            oom |-> "none"]
                /\ payload' = payload
                /\ output' = NoOutput
                /\ exit_code' = 2
                /\ active' = active
                /\ current' = current
           ELSE \E oom \in MemoryErrors :
                /\ call' = [op |-> "_run_directly_from_args", parsed |-> TRUE,
                            oom |-> oom]
                /\ IF HashMode(args)
                   THEN /\ oom # "second"
                        /\ active' = args.hash_file
                        /\ current' = Document(active')
                        /\ IF oom = "none"
                           THEN /\ payload' = HashPayload(args.hash_file)
                                /\ output' = Write(args, payload', spawned)
                                /\ exit_code' = 0
                           ELSE /\ payload' = payload
                                /\ output' = NoOutput
                                /\ exit_code' \in ScriptErrorExitCodes
                   ELSE /\ active' = IF oom = "first" THEN args.file_original
                                     ELSE args.file_modified
                        /\ current' = Document(active')
                        /\ payload' =
                            IF oom = "none"
                            THEN _diff_snapshots(
                                    _snapshot_file(args.file_original, id_prop),
                                    _snapshot_file(args.file_modified, id_prop))
                            ELSE MemoryErrorResult
                        /\ output' = Write(args, payload', spawned)
                        /\ exit_code' = 0
    /\ pc' = IF pc = "spawned" THEN "child_exited" ELSE "exited"
    /\ UNCHANGED <<sys_argv, _BLENDER, launch>>
    /\ UNCHANGED <<docA, docB, id_prop, snapA, snapB, result, hashA, hashB>>
    /\ UNCHANGED <<_cache, returned, snap_current, snap_other, events>>
    /\ UNCHANGED <<walkVars, propsVars, policyVars, graphVars, addonVars>>

\* _run_from_wrapper() up to subprocess.run: --blender-exec is required and
\* the blenddiff arguments are parsed before Blender is spawned with
\* "--python <script> --" and the same arguments
_run_from_wrapper ==
    /\ pc = "wrapper"
    /\ IF ~sys_argv.blender_exec \/ ParseError(sys_argv)
       THEN /\ exit_code' = 2
            /\ pc' = "exited"
       ELSE /\ exit_code' = exit_code
            /\ pc' = "spawned"
    /\ UNCHANGED <<sys_argv, _BLENDER, launch, payload, output>>
    /\ UNCHANGED <<docA, docB, id_prop, active, snapA, snapB, result, hashA, hashB>>
    /\ UNCHANGED <<walkVars, propsVars, policyVars, sessionVars, graphVars, addonVars>>

\* _run_from_wrapper() after subprocess.run: the first JSON object of the
\* captured stdout is printed again, or the output file is looked for; the
\* return code of Blender is only logged
wrapper_output ==
    /\ pc = "child_exited"
    /\ IF sys_argv.file_out = ""
       THEN IF output.captured = PyNone
            THEN /\ output' = output       \* _extract_first_json raises ValueError
                 /\ exit_code' = 1
            ELSE /\ output' = [output EXCEPT !.stdout = output.captured]
                 /\ exit_code' = 0
       ELSE /\ output' = output
            /\ exit_code' = IF output.file_out = PyNone THEN 1 ELSE 0
    /\ pc' = "exited"
    /\ UNCHANGED <<sys_argv, _BLENDER, launch, payload>>
    /\ UNCHANGED <<docA, docB, id_prop, active, snapA, snapB, result, hashA, hashB>>
    /\ UNCHANGED <<walkVars, propsVars, policyVars, sessionVars, graphVars, addonVars>>

NextCli ==
    \/ main
    \/ _run_directly_from_args
    \/ _run_from_wrapper
    \/ wrapper_output

-----------------------------------------------------------------------------
(* 7. The walk of a property graph, one call of _walk_rna at a time *)

\* the structures of a graph, by address; the walked entity is at address 1
Addresses == 1..MaxStructs

\* the nesting of calls at which the interpreter raises RecursionError; an
\* acyclic graph of MaxStructs structures never nests that deep
RecursionLimit == MaxStructs + 2

\* each structure has one writable property: a POINTER (target 0: None), or
\* a collection of at most one element (target 0: no element)
Links == [kind : {"POINTER", "COLLECTION"}, target : {0} \cup Addresses]

\* is_id: isinstance(..., bpy.types.ID)
Graphs ==
    {g \in [Addresses -> [is_id : BOOLEAN, link : Links]] : g[1].is_id}

InitGraph ==
    /\ EngineIdle
    /\ pc = "walking"
    /\ graph \in Graphs
    /\ stack = <<1>>
    /\ WalkIdle /\ PropsIdle /\ PolicyIdle /\ SessionIdle /\ CliIdle /\ AddonIdle

\* the structure the innermost call is walking, and what its property holds
Top == stack[Len(stack)]
Raw == graph[Top].link.target

\* raw is an embedded structure: neither None nor a bpy.types.ID
Embedded == Raw # 0 /\ ~graph[Raw].is_id

\* out.update(cls._walk_rna(raw, path)) / out.update(cls._walk_rna(item, subpath))
walk_enter ==
    /\ pc = "walking"
    /\ Embedded
    /\ Len(stack) < RecursionLimit
    /\ stack' = Append(stack, Raw)
    /\ UNCHANGED <<pc, graph>>
    /\ UNCHANGED <<docA, docB, id_prop, active, snapA, snapB, result, hashA, hashB>>
    /\ UNCHANGED <<walkVars, propsVars, policyVars, sessionVars, cliVars, addonVars>>

\* the same call when the interpreter allows no deeper nesting: the call
\* raises RecursionError in the calling frame
walk_raise ==
    /\ pc = "walking"
    /\ Embedded
    /\ Len(stack) = RecursionLimit
    /\ pc' = "raising"
    /\ UNCHANGED <<graph, stack>>
    /\ UNCHANGED <<docA, docB, id_prop, active, snapA, snapB, result, hashA, hashB>>
    /\ UNCHANGED <<walkVars, propsVars, policyVars, sessionVars, cliVars, addonVars>>

\* raw is None, a bpy.types.ID or there is no element: the value (None or
\* "<Type>:<Name>") is written, the loop over the properties ends
walk_leaf ==
    /\ pc = "walking"
    /\ ~Embedded
    /\ pc' = "returning"
    /\ UNCHANGED <<graph, stack>>
    /\ UNCHANGED <<docA, docB, id_prop, active, snapA, snapB, result, hashA, hashB>>
    /\ UNCHANGED <<walkVars, propsVars, policyVars, sessionVars, cliVars, addonVars>>

\* return out: the caller's out.update(...) runs and its own loop ends
walk_return ==
    /\ pc = "returning"
    /\ stack' = SubSeq(stack, 1, Len(stack) - 1)
    /\ pc' = IF Len(stack) = 1 THEN "returned" ELSE "returning"
    /\ UNCHANGED graph
    /\ UNCHANGED <<docA, docB, id_prop, active, snapA, snapB, result, hashA, hashB>>
    /\ UNCHANGED <<walkVars, propsVars, policyVars, sessionVars, cliVars, addonVars>>

\* the exception arrives inside the try block of a collection property:
\* "except Exception as ex: out[path] = f'<error:{ex}>'", the loop goes on
walk_except ==
    /\ pc = "raising"
    /\ graph[Top].link.kind = "COLLECTION"
    /\ pc' = "returning"
    /\ UNCHANGED <<graph, stack>>
    /\ UNCHANGED <<docA, docB, id_prop, active, snapA, snapB, result, hashA, hashB>>
    /\ UNCHANGED <<walkVars, propsVars, policyVars, sessionVars, cliVars, addonVars>>

\* the exception arrives in the POINTER branch, which has no try block: the
\* call ends with the exception
walk_propagate ==
    /\ pc = "raising"
    /\ graph[Top].link.kind = "POINTER"
    /\ stack' = SubSeq(stack, 1, Len(stack) - 1)
    /\ pc' = IF Len(stack) = 1 THEN "RecursionError" ELSE "raising"
    /\ UNCHANGED graph
    /\ UNCHANGED <<docA, docB, id_prop, active, snapA, snapB, result, hashA, hashB>>
    /\ UNCHANGED <<walkVars, propsVars, policyVars, sessionVars, cliVars, addonVars>>

NextGraph ==
    \/ walk_enter
    \/ walk_raise
    \/ walk_leaf
    \/ walk_return
    \/ walk_except
    \/ walk_propagate

-----------------------------------------------------------------------------
(* 8. The add-on: VDIFF_OT_Compare *)

\* the instance made by register(): BD = BlendDiff()
BD == "e1"

\* the documents of a session of the add-on
PoolAddon ==
    { <<Object("a", "M", "MESH", FALSE, 0, NoCustom)>>,
      <<Object("a", "M", "MESH", TRUE, 0, NoCustom)>>,
      <<Object("b", "N", "MESH", FALSE, 0, NoCustom)>>,
      <<Object("a", "M", "MESH", FALSE, 0, NoCustom),
        Object("b", "N", "MESH", FALSE, 0, NoCustom)>>,
      <<Object("a", "M", "MESH", TRUE, 0, NoCustom),
        Object("c", "N", "MESH", FALSE, 0, NoCustom)>> }

\* a session of the host with the add-on enabled: the document in memory is
\* the saved file A, or an edited copy of it when is_dirty, or was never saved
InitAddon ==
    /\ docA \in PoolAddon
    /\ docB \in PoolAddon
    /\ id_prop = ""
    /\ active \in {"none", "A"}
    /\ pc = "start"
    /\ snapA = <<>>
    /\ snapB = <<>>
    /\ result = NoResult
    /\ hashA = ""
    /\ hashB = ""
    /\ is_dirty \in BOOLEAN
    /\ current \in IF is_dirty THEN PoolAddon \ {docA} ELSE {docA}
    /\ compare_filepath \in {"", "B"}
    /\ excluded \in {{}, {"b"}}
    /\ selected = {}
    /\ _cache = [self \in Engines |-> PyNone]
    /\ call = NoCall
    /\ returned = PyNone
    /\ snap_current = <<>>
    /\ snap_other = <<>>
    /\ events = <<>>
    /\ WalkIdle /\ PropsIdle /\ PolicyIdle /\ CliIdle /\ GraphIdle

\* diff_changed.get("objects", {}) / diff_added.get("objects", {}): the names
ObjectNames(group) ==
    IF "objects" \in DOMAIN group THEN DOMAIN group["objects"] ELSE {}

\* target_scene.objects: the objects of the document in memory
SceneObjects(doc) == {doc[i] : i \in {j \in 1..Len(doc) : doc[j].coll = "objects"}}

\* getattr(object, "hide_select", False)
HideSelect(object) ==
    \E i \in 1..Len(object.props) :
        /\ object.props[i].identifier = "hide_select"
        /\ object.props[i].value.b

\* select_all(action='DESELECT'), then select_set(True) on every object of
\* the scene that is not under an excluded collection, whose name is a key of
\* changed["objects"] or added["objects"], and that is not hide_select
Highlight(diff, doc, excl) ==
    LET names == ObjectNames(diff.changed) \cup ObjectNames(diff.added)
        candidate_objects == {object \in SceneObjects(doc) : object.name_full \notin excl}
        target_objects == {object \in candidate_objects : object.name_full \in names}
    IN  {object.name_full : object \in {o \in target_objects : ~HideSelect(o)}}

\* invoke goes on to the comparison: bpy.data.filepath is set and
\* _validate_path returned a path; the is_dirty test is commented out
Compares(filepath, dirty, target) == filepath # "none" /\ target # ""

\* the end of invoke after diff = BD.diff_current_vs_other(target)
Finish(h0, s1, h2, s3, h4, diff) ==
    \E oom \in MemoryErrors :
        LET h == CASE oom = "first" -> h0
                   [] oom = "second" -> h2
                   [] OTHER -> h4
        IN  /\ call' = [op |-> "invoke", oom |-> oom, filepath |-> active,
                        data |-> current, is_dirty |-> is_dirty]
            /\ active' = h.active
            /\ current' = h.current
            /\ events' = h.events
            /\ is_dirty' = IF Len(h.events) > 1 THEN FALSE ELSE is_dirty
            /\ snap_current' = IF oom = "first" THEN <<>> ELSE s1.snapshot
            /\ snap_other' = IF oom = "none" THEN s3.snapshot ELSE <<>>
            /\ _cache' = CacheAfter(_cache, BD, oom, diff)
            /\ selected' = IF oom = "none" THEN Highlight(diff, h.current, excluded)
                           ELSE selected
            /\ returned' = IF oom = "none" THEN {"FINISHED"} ELSE {"CANCELLED"}

\* VDIFF_OT_Compare.invoke(context, event)
invoke ==
    /\ pc = "start"
    /\ pc' = "invoked"
    /\ IF Compares(active, is_dirty, compare_filepath)
       THEN LET h0 == Host(active, current)
                s1 == SnapshotCurrent(h0)
                h2 == OpenMainfile(s1.host, compare_filepath)
                s3 == SnapshotCurrent(h2)
                h4 == ReloadOriginal(s3.host, active)
            IN  Finish(h0, s1, h2, s3, h4,
                       _diff_snapshots(s1.snapshot, s3.snapshot))
       ELSE /\ call' = [op |-> "invoke", oom |-> "none", filepath |-> active,
                        data |-> current, is_dirty |-> is_dirty]
            /\ returned' = {"CANCELLED"}
            /\ events' = <<>>
            /\ snap_current' = <<>>
            /\ snap_other' = <<>>
            /\ UNCHANGED <<active, current, is_dirty, _cache, selected>>
    /\ UNCHANGED <<docA, docB, id_prop, snapA, snapB, result, hashA, hashB>>
    /\ UNCHANGED <<compare_filepath, excluded>>
    /\ UNCHANGED <<walkVars, propsVars, policyVars, cliVars, graphVars>>

NextAddon == invoke

Next ==
    \/ diff_blend_files
    \/ hash_blend_file_original
    \/ hash_blend_file_modified

Spec == Init /\ [][Next]_vars

SpecOrder == InitOrder /\ [][Next]_vars

SpecWalk == InitWalk /\ [][NextWalk]_vars

SpecProps == InitProps /\ [][NextProps]_vars

SpecIdentity == InitIdentity /\ [][NextIdentity]_vars

SpecPolicy == InitPolicy /\ [][NextPolicy]_vars

SpecSession == InitSession /\ [][NextSession]_vars

SpecCli == InitCli /\ [][NextCli]_vars

SpecFields == InitFields /\ [][Next]_vars

SpecCache == InitCache /\ [][NextCache]_vars

SpecGraph == InitGraph /\ [][NextGraph]_vars

SpecAddon == InitAddon /\ [][NextAddon]_vars

SpecElements == InitElements /\ [][NextWalk]_vars

-----------------------------------------------------------------------------
(* Properties *)

\* a Python dict compared with ==: the insertion order does not count
SnapDict(snapshot) == [key \in DictKeys(snapshot) |-> DictValue(snapshot, key)]

CommonKeys == DictKeys(snapA) \cap DictKeys(snapB)

\* group[dtype][name] exists
Has(group, dtype, name) == dtype \in DOMAIN group /\ name \in DOMAIN group[dtype]

\* the (category, name) pairs of a grouping
Entries(group) == UNION {{<<d, n>> : n \in DOMAIN group[d]} : d \in DOMAIN group}

EmptyDiff == [added |-> EmptyDict, removed |-> EmptyDict, changed |-> EmptyDict]

\* C1: diff symmetry: the added of diff(A,B) is the removed of diff(B,A), and
\* the removed of diff(A,B) is the added of diff(B,A)
DiffSymmetry ==
    pc = "diffed" =>
        /\ result.added = _diff_snapshots(snapB, snapA).removed
        /\ result.removed = _diff_snapshots(snapB, snapA).added

DiffSymmetryWitness ==
    /\ pc = "diffed"
    /\ result.added # EmptyDict
    /\ result.removed # EmptyDict
    /\ CommonKeys # {}

\* C2: no-op diff: the diff of two equal snapshots is exactly
\* {"added": {}, "removed": {}, "changed": {}}
NoOpDiff ==
    (pc = "diffed" /\ SnapDict(snapA) = SnapDict(snapB)) => result = EmptyDiff

NoOpDiffWitness ==
    /\ pc = "diffed"
    /\ Len(snapA) = MaxEntities
    /\ SnapDict(snapA) = SnapDict(snapB)

\* the two datablocks are Objects without custom properties, with the same
\* data and the same object type, whose walked properties differ in the name only
RenamedOnly(x, y) ==
    /\ x.is_object /\ y.is_object
    /\ x.custom = NoCustom /\ y.custom = NoCustom
    /\ ~x.library /\ ~y.library
    /\ x.has_data = y.has_data /\ x.data = y.data /\ x.type = y.type
    /\ DOMAIN _diff_props(_walk_rna(x, ""), _walk_rna(y, "")) = {"name"}

\* C3: identity stability under rename: when the two documents differ only
\* by the name of one Object, the diff lists that object under changed with a
\* name delta, and neither under added nor under removed
RenameListedAsChanged ==
    pc = "diffed" =>
        \A i \in 1..Len(docA) :
            ( /\ Len(docA) = Len(docB)
              /\ \A j \in 1..Len(docA) : j # i => docA[j] = docB[j]
              /\ RenamedOnly(docA[i], docB[i]) )
            => /\ Has(result.changed, "objects", docB[i].name_full)
               /\ "name" \in DOMAIN result.changed["objects"][docB[i].name_full]
               /\ ~Has(result.added, "objects", docB[i].name_full)
               /\ ~Has(result.removed, "objects", docA[i].name_full)

\* the datablocks of doc that _snapshot_current does not skip
Eligible(doc) ==
    {i \in 1..Len(doc) : /\ doc[i].coll \notin SKIP_IDB_COLLS
                         /\ doc[i].has_name_full
                         /\ ~doc[i].library}

\* C4: snapshot key uniqueness: every eligible datablock is stored under a
\* key of its own, so the snapshot has as many entries as the document has
\* eligible datablocks
SnapshotKeysUnique ==
    pc = "diffed" =>
        /\ Len(snapA) = Cardinality(Eligible(docA))
        /\ Len(snapB) = Cardinality(Eligible(docB))

\* C5: the key under which each datablock is stored does not depend on the
\* order of enumeration: two enumerations of the same datablocks give the
\* same mapping from keys to blocks
KeysIndependentOfOrder ==
    (pc = "diffed" /\ docB \in Reorderings(docA)) =>
        SnapDict(snapA) = SnapDict(snapB)

\* the walked (non-excluded) properties stored under each identity key
Content(snapshot) ==
    [key \in DictKeys(snapshot) |-> DictValue(snapshot, key).props]

\* C6: file hash sensitivity: the digests of the two files differ exactly when
\* a non-excluded property of a snapshotted datablock differs or a datablock
\* is in one file only
HashSensitivity ==
    pc = "done" => ((hashA # hashB) <=> (Content(snapA) # Content(snapB)))

\* the (identity key, entity hash) pairs of a snapshot
KeyHashPairs(snapshot) ==
    {<<snapshot[i].key, snapshot[i].block.hash>> : i \in 1..Len(snapshot)}

\* C7: digest determinism: two snapshots with the same (identity key, entity
\* hash) pairs have the same digest, whatever the insertion order
DigestDeterminism ==
    (pc = "done" /\ KeyHashPairs(snapA) = KeyHashPairs(snapB)) => hashA = hashB

DigestDeterminismWitness ==
    /\ pc = "done"
    /\ KeyHashPairs(snapA) = KeyHashPairs(snapB)
    /\ snapA # snapB
    /\ hashA = hashB

\* C8: the hash gates the field diff: a key of both snapshots whose blocks
\* have the same hash is not listed under changed
HashGatesFieldDiff ==
    pc = "diffed" =>
        \A key \in CommonKeys :
            DictValue(snapA, key).hash = DictValue(snapB, key).hash
            => ~Has(result.changed, DictValue(snapB, key).bpy_path,
                    NameOf(DictValue(snapB, key)))

HashGatesFieldDiffWitness ==
    /\ pc = "diffed"
    /\ \E key \in CommonKeys :
        /\ DictValue(snapA, key).hash = DictValue(snapB, key).hash
        /\ DictValue(snapA, key).props # DictValue(snapB, key).props
    /\ result.changed = EmptyDict

\* C9: policy exclusion: no key of the props map of a datablock ends with a
\* member of SKIP_RNA_PATHS, at any nesting depth
PolicyExclusion ==
    pc = "walked" =>
        \A path \in DOMAIN hashed.props :
            \A s \in SKIP_RNA_PATHS : ~EndsWith(path, s)

RECURSIVE ExcludedBelow(_, _)
\* props holds, d or more levels down, a writable property named in SKIP_RNA_PATHS
ExcludedBelow(props, d) ==
    \E i \in 1..Len(props) :
        LET p == props[i]
        IN  \/ d <= 0 /\ ~p.is_readonly /\ p.identifier \in SKIP_RNA_PATHS
            \/ /\ p.type = "POINTER" /\ ~p.raises
               /\ ~p.is_none /\ ~p.target.is_id
               /\ ExcludedBelow(p.target.props, d - 1)
            \/ /\ p.is_collection
               /\ \E j \in 1..Len(p.items) :
                    /\ ~p.items[j].raises /\ ~p.items[j].is_id
                    /\ ExcludedBelow(p.items[j].props, d - 1)

PolicyExclusionWitness ==
    /\ pc = "walked"
    /\ ExcludedBelow(datablock.props, MaxDepth)
    /\ \E path \in DOMAIN hashed.props : path # "name"

\* C10: added and removed are exact set differences: added lists, with an
\* empty marker, the category and name (read from the modified snapshot) of
\* exactly the keys of the modified snapshot that the original lacks, removed
\* those (read from the original) of the keys the modified lacks; a key of
\* both snapshots is listed in neither
AddedRemovedExact ==
    pc = "diffed" =>
        /\ Entries(result.added) =
             {<<DictValue(snapB, key).bpy_path, NameOf(DictValue(snapB, key))>> :
                key \in DictKeys(snapB) \ DictKeys(snapA)}
        /\ Entries(result.removed) =
             {<<DictValue(snapA, key).bpy_path, NameOf(DictValue(snapA, key))>> :
                key \in DictKeys(snapA) \ DictKeys(snapB)}
        /\ \A e \in Entries(result.added) : result.added[e[1]][e[2]] = EmptyDict
        /\ \A e \in Entries(result.removed) : result.removed[e[1]][e[2]] = EmptyDict
        /\ \A key \in CommonKeys :
            /\ ~Has(result.added, DictValue(snapB, key).bpy_path,
                    NameOf(DictValue(snapB, key)))
            /\ ~Has(result.removed, DictValue(snapA, key).bpy_path,
                    NameOf(DictValue(snapA, key)))

AddedRemovedExactWitness ==
    /\ pc = "diffed"
    /\ \E d \in DOMAIN result.added : Cardinality(DOMAIN result.added[d]) >= 2
    /\ result.removed # EmptyDict

\* C11: field-level diff: _diff_props(pa, pb) has an entry for exactly the
\* paths present in only one of the two maps and the paths of both maps with
\* unequal values, each entry holding the value of pa under "A" and the value
\* of pb under "B", None for the side where the path is absent
DiffPropsExact ==
    pc = "compared" =>
        /\ DOMAIN props_delta =
             {k \in DOMAIN props_a \cup DOMAIN props_b :
                \/ k \notin DOMAIN props_a \cap DOMAIN props_b
                \/ PyNe(props_a[k], props_b[k])}
        /\ \A k \in DOMAIN props_delta : props_delta[k] = [A |-> Get(props_a, k), B |-> Get(props_b, k)]

\* the (category, name) pairs under which the blocks of a snapshot are filed
Filed(snapshot, keys) ==
    {<<DictValue(snapshot, k).bpy_path, NameOf(DictValue(snapshot, k))>> : k \in keys}

\* the categories and names used as keys of a grouping
OutputKeys(group) == DOMAIN group \cup UNION {DOMAIN group[d] : d \in DOMAIN group}

\* C12: output grouping: every entry of added, removed and changed is filed
\* under the collection name (bpy_path) and the name property of its entity,
\* the changed ones under those of the modified snapshot; no identity key is
\* used as an output key
OutputGrouping ==
    pc = "diffed" =>
        /\ Entries(result.added) = Filed(snapB, DictKeys(snapB) \ DictKeys(snapA))
        /\ Entries(result.removed) = Filed(snapA, DictKeys(snapA) \ DictKeys(snapB))
        /\ Entries(result.changed) = Filed(snapB, ChangedKeys(snapA, snapB))
        /\ \A g \in {result.added, result.removed, result.changed} :
            /\ DOMAIN g \subseteq {docA[i].coll : i \in 1..Len(docA)}
                                \cup {docB[i].coll : i \in 1..Len(docB)}
            /\ OutputKeys(g) \cap (DictKeys(snapA) \cup DictKeys(snapB)) = {}

OutputGroupingWitness ==
    /\ pc = "diffed"
    /\ result.added # EmptyDict
    /\ \E k \in CommonKeys :
        /\ NameOf(DictValue(snapA, k)) # NameOf(DictValue(snapB, k))
        /\ Has(result.changed, "objects", NameOf(DictValue(snapB, k)))
        /\ ~Has(result.changed, "objects", NameOf(DictValue(snapA, k)))

StartsWith(s, prefix) == Len(s) >= Len(prefix) /\ SubSeq(s, 1, Len(prefix)) = prefix

\* the strategies whose key format the key has
StrategiesOf(k, idb) ==
    {st \in {"prop", "stable", "hash"} :
        \/ st = "prop" /\ StartsWith(k, idb.cls \o ":prop:")
        \/ st = "stable" /\ StartsWith(k, "Object:stable:")
        \/ st = "hash" /\ StartsWith(k, idb.cls \o ":hash:")}

\* C17: identity strategy order: the key is '<Type>:prop:<value>' when
\* id_prop is given and the datablock carries that custom property (Objects
\* included), otherwise 'Object:stable:<data name or NONE>:<object type>' for
\* an Object, otherwise '<Type>:hash:<content hash>'; it is never empty and
\* has the format of exactly one strategy
IdentityStrategyOrder ==
    pc = "keyed" =>
        LET tagged == id_prop # "" /\ \E p \in datablock.custom : p[1] = id_prop
        IN  /\ identity # ""
            /\ Cardinality(StrategiesOf(identity, datablock)) = 1
            /\ tagged =>
                \E p \in datablock.custom :
                    /\ p[1] = id_prop
                    /\ identity = datablock.cls \o ":prop:" \o p[2]
            /\ (~tagged /\ datablock.is_object) =>
                identity = "Object:stable:"
                            \o (IF datablock.has_data THEN datablock.data.name_full
                                ELSE "NONE")
                            \o ":" \o datablock.type
            /\ (~tagged /\ ~datablock.is_object) =>
                identity = datablock.cls \o ":hash:" \o hashed.hash

IdentityStrategyOrderWitness ==
    /\ pc = "keyed"
    /\ datablock.is_object
    /\ id_prop = "tag"
    /\ identity = "Object:prop:8"

\* the contents of the three policy sets
PolicyContents(p) ==
    [primitive_types |-> Members(p.primitive_types),
     skip_idb_collections |-> Members(p.skip_idb_collections),
     skip_rna_paths |-> Members(p.skip_rna_paths)]

\* C18: policy digest: two builds have the same policy_hash exactly when
\* their three policy sets have the same contents, whatever the iteration
\* order of the sets; a member added to or removed from an exclusion set
\* changes the digest
PolicyDigest ==
    pc = "policy" =>
        ((policy_hash[1] = policy_hash[2])
            <=> (PolicyContents(policy[1]) = PolicyContents(policy[2])))

PolicyDigestWitness ==
    /\ pc = "policy"
    /\ policy[1] # policy[2]
    /\ PolicyContents(policy[1]) = PolicyContents(policy[2])
    /\ Cardinality(Members(policy[1].skip_rna_paths)) = 2
    /\ policy_hash[1] = policy_hash[2]

IsPrefix(p, q) == Len(p) <= Len(q) /\ SubSeq(q, 1, Len(p)) = p

\* the host operations of a complete diff_current_vs_other call made while
\* bpy.data.filepath was fp
LoadSnapshotReload(fp) ==
    <<"snapshot_current", "open_mainfile:B", "snapshot_current">>
        \o (IF fp # "none" THEN <<"open_mainfile:" \o fp>> ELSE <<>>)

\* C15: load/snapshot/reload ordering: diff_current_vs_other snapshots the
\* document in memory before it loads a file, then loads and snapshots the
\* other file, then reloads the original path if and only if the session had
\* a file path when the call started, never in another order; when it
\* returns a diff the active document is the original file if there was one,
\* the other file if not
LoadOrder ==
    call.op = "diff_current_vs_other" =>
        /\ IsPrefix(events, LoadSnapshotReload(call.filepath))
        /\ call.oom = "none" =>
            /\ events = LoadSnapshotReload(call.filepath)
            /\ snap_current = _snapshot_current(call.data, id_prop, TRUE)
            /\ snap_other = _snapshot_current(docB, id_prop, TRUE)
            /\ active = IF call.filepath # "none" THEN call.filepath ELSE "B"
            /\ current = Document(active)

LoadOrderWitness ==
    /\ call.op = "diff_current_vs_other"
    /\ call.oom = "none"
    /\ call.filepath = "A"
    /\ returned.changed # EmptyDict
    /\ Len(events) = 4
    /\ active = "A"

\* the calls that assign self._cache
Caching(c) ==
    \/ c.op = "set_invalid_cache"
    \/ c.op = "diff_current_vs_other" /\ c.oom = "none"

\* C16: single-slot diff cache: the cache of an instance is None when the
\* instance is fresh and after set_invalid_cache; a diff_current_vs_other
\* call that returns a diff (the reversed one when reverse=True) stores
\* exactly that result; get_diff_cache returns what is stored, and nothing
\* but these two calls on the same instance changes what is stored
CacheSingleSlot ==
    /\ [](/\ call = NoCall => \A e \in Engines : _cache[e] = PyNone
          /\ call.op = "set_invalid_cache" => _cache[call.self] = PyNone
          /\ (call.op = "diff_current_vs_other" /\ call.oom = "none") =>
                /\ _cache[call.self] = returned
                /\ returned = IF call.reverse
                              THEN _diff_snapshots(snap_other, snap_current)
                              ELSE _diff_snapshots(snap_current, snap_other))
    /\ [][/\ call'.op = "get_diff_cache" =>
                /\ returned' = _cache[call'.self]
                /\ _cache' = _cache
          /\ \A e \in Engines :
                _cache'[e] # _cache[e] => (Caching(call') /\ call'.self = e)]_vars

CacheSingleSlotWitness ==
    /\ call.op = "get_diff_cache"
    /\ returned # PyNone
    /\ \E e \in Engines :
        /\ e # call.self
        /\ _cache[e] # PyNone
        /\ _cache[e] # returned

\* a direct run of the command line that has ended
DirectRunEnded == launch = "direct" /\ pc = "exited"

\* what the run wrote to the output the arguments select
Selected == IF sys_argv.stdout THEN output.stdout ELSE output.file_out

\* C14: exit status of the command line: a direct run exits with 0 when it
\* succeeds; when a MemoryError is raised while snapshotting, in --hash mode
\* as in --diff mode, it exits with a non-zero status and writes a structured
\* {"error", "stage"} payload to the selected output
CliExitStatus ==
    (DirectRunEnded /\ call.parsed) =>
        /\ call.oom = "none" => exit_code = 0
        /\ call.oom # "none" =>
            /\ exit_code # 0
            /\ DOMAIN Selected = {"error", "stage"}

\* C19: mode selection of the command line: for every accepted argument list
\* the payload is the one the mode flag names: with --diff the diff of
\* --file-original and --file-modified, with --hash the hash payload of
\* --hash-file, also when arguments of the other mode are given
CliModeSelection ==
    (DirectRunEnded /\ call.parsed /\ call.oom = "none") =>
        /\ sys_argv.diff =>
            payload = _diff_snapshots(_snapshot_file(sys_argv.file_original, id_prop),
                                      _snapshot_file(sys_argv.file_modified, id_prop))
        /\ sys_argv.hash => payload = HashPayload(sys_argv.hash_file)

\* the two documented command lines: inside Blender with '--', and under
\* plain CPython with '--blender-exec <path> -- <arguments>'
DocumentedDirect == _BLENDER /\ sys_argv.separator
DocumentedWrapper == ~_BLENDER /\ sys_argv.blender_exec /\ sys_argv.separator

\* C20: launch-mode dispatch: the documented wrapper command line runs the
\* wrapper, the documented Blender command line runs the engine directly, and
\* the usage message with exit status 1 is kept for invalid usage
LaunchDispatch ==
    pc # "start" =>
        /\ DocumentedWrapper => launch = "wrapper"
        /\ DocumentedDirect => launch = "direct"
        /\ launch = "usage" =>
            /\ exit_code = 1
            /\ ~DocumentedWrapper /\ ~DocumentedDirect

\* the blocks stored under key in the two snapshots of the comparison
BlockA(key) == DictValue(snapA, key)
BlockB(key) == DictValue(snapB, key)

\* C22: differing hashes imply a reported change: for every identity key of
\* both snapshots whose two content hashes differ, the field diff is not
\* empty and the entity is listed under changed
DifferingHashesReported ==
    pc = "diffed" =>
        \A key \in CommonKeys :
            BlockA(key).hash # BlockB(key).hash
            => /\ _diff_props(BlockA(key).props, BlockB(key).props) # EmptyDict
               /\ Has(result.changed, BlockB(key).bpy_path, NameOf(BlockB(key)))

\* some path is present in only one of the two props maps, or has unequal
\* values in the two
FieldDifference(pa, pb) ==
    \E k \in DOMAIN pa \cup DOMAIN pb :
        \/ k \notin DOMAIN pa
        \/ k \notin DOMAIN pb
        \/ PyNe(pa[k], pb[k])

\* C23: the hash pre-filter never hides a field difference: two props maps
\* stored under the same identity key that show a field difference have
\* different content hashes
HashNeverHidesDifference ==
    pc = "diffed" =>
        \A key \in CommonKeys :
            FieldDifference(BlockA(key).props, BlockB(key).props)
            => BlockA(key).hash # BlockB(key).hash

\* the key of the entry was produced by the content-hash fallback, with or
\* without the collision suffix
HashKeyed(entry) == StartsWith(entry.key, entry.block.type \o ":hash:")

\* some property of the entity differs from every entity of the other snapshot
DiffersFromAll(entry, snapshot) ==
    \A j \in 1..Len(snapshot) :
        FieldDifference(entry.block.props, snapshot[j].block.props)

\* C29: content-hash identities never yield changed: an entity keyed by the
\* content-hash fallback is never listed under changed; when some property
\* of it differs between the two snapshots it is listed under removed with
\* its original name and under added with its modified name
HashIdentityNeverChanged ==
    pc = "diffed" =>
        /\ \A key \in ChangedKeys(snapA, snapB) :
            ~HashKeyed([key |-> key, block |-> BlockB(key)])
        /\ \A i \in 1..Len(snapA) :
            (HashKeyed(snapA[i]) /\ DiffersFromAll(snapA[i], snapB))
            => Has(result.removed, snapA[i].block.bpy_path, NameOf(snapA[i].block))
        /\ \A j \in 1..Len(snapB) :
            (HashKeyed(snapB[j]) /\ DiffersFromAll(snapB[j], snapA))
            => Has(result.added, snapB[j].block.bpy_path, NameOf(snapB[j].block))

\* C26: the active document is released on every normal return: when
\* diff_current_vs_other returns, with a diff or with the {error, stage}
\* result, on a session whose document had a backing file, the active
\* document is the original file again, and every load of the other file is
\* followed by a load of the original file before the call returns
ActiveDocumentReleased ==
    (call.op = "diff_current_vs_other" /\ call.filepath # "none") =>
        /\ active = call.filepath
        /\ current = Document(call.filepath)
        /\ \A i \in 1..Len(events) :
            events[i] = "open_mainfile:B"
            => \E j \in (i + 1)..Len(events) :
                    events[j] = "open_mainfile:" \o call.filepath

\* the value is an error payload
IsError(value) == "error" \in DOMAIN value

\* the calls that C28 names as leaving the cache alone
LeavesCache(c) ==
    \/ c.op \in {"diff_blend_files", "hash_blend_file", "hash_current_file",
                 "get_diff_cache"}
    \/ c.op = "diff_current_vs_other" /\ c.oom # "none"

\* C28: cache frame condition: diff_blend_files, hash_blend_file,
\* hash_current_file, get_diff_cache and a diff_current_vs_other call that
\* ends in the MemoryError result leave the cache slots as they were, so the
\* cache never holds an error payload and get_diff_cache never returns one
CacheFrame ==
    /\ [](\A e \in Engines : ~IsError(_cache[e]))
    /\ [][/\ LeavesCache(call') => _cache' = _cache
          /\ call'.op = "get_diff_cache" => ~IsError(returned')]_vars

\* a comparison has failed on an instance that holds the diff of an earlier
\* comparison: the slot still holds that diff
CacheFrameWitness ==
    /\ call.op = "diff_current_vs_other"
    /\ call.oom # "none"
    /\ returned = MemoryErrorResult
    /\ _cache[call.self] # PyNone
    /\ DOMAIN _cache[call.self] = {"added", "removed", "changed"}

\* C25: walker termination: on every finite property graph, with shared or
\* cyclically referenced structures, the walk returns without exhausting the
\* nesting of calls the interpreter allows, and no structure is entered
\* again while it is being walked
WalkTerminates ==
    /\ pc \notin {"raising", "RecursionError"}
    /\ \A i, j \in 1..Len(stack) : i # j => stack[i] # stack[j]

\* f"<error:{ex}>"
Marker(ex) == PyStrV("<error:" \o ex \o ">")

\* every entry of the map part is an entry of the map whole
Within(part, whole) ==
    \A k \in DOMAIN part : k \in DOMAIN whole /\ whole[k] = part[k]

\* the iteration of the collection property meets an element that raises
IterationRaises(prop) ==
    prop.is_collection /\ \E k \in 1..Len(prop.items) : prop.items[k].raises

\* C24: walker error recovery: a property whose read raises gets an
\* '<error:...>' marker at its path, a collection property whose iteration
\* raises gets a marker at the collection's path, and in both cases the walk
\* returns with the entries of all other properties of the entity
WalkerRecovers ==
    pc = "walked" =>
        \A i \in 1..Len(datablock.props) :
            LET prop == datablock.props[i]
            IN  /\ prop.raises =>
                    /\ prop.identifier \in DOMAIN hashed.props
                    /\ hashed.props[prop.identifier] = Marker(prop.ex)
                /\ IterationRaises(prop) =>
                    /\ prop.identifier \in DOMAIN hashed.props
                    /\ hashed.props[prop.identifier] = Marker("e")
                /\ (~prop.raises /\ ~IterationRaises(prop)) =>
                    Within(WalkProp(prop, "", EmptyDict), hashed.props)

\* a property read raises, the iteration of the collection raises after an
\* element was walked, and a property listed after both is in the result
WalkerRecoversWitness ==
    /\ pc = "walked"
    /\ Len(datablock.props) = 3
    /\ datablock.props[1].raises
    /\ Len(datablock.props[2].items) = 2
    /\ ~datablock.props[2].items[1].raises
    /\ datablock.props[2].items[2].raises
    /\ "hide_render" \in DOMAIN hashed.props
    /\ "modifiers" \in DOMAIN hashed.props
    /\ "color" \in DOMAIN hashed.props

\* the elements the loop over a collection reaches: those before the first
\* element that raises
Visited(prop) ==
    {k \in 1..Len(prop.items) : \A m \in 1..k : ~prop.items[m].raises}

\* subpath = f"{path}[{subkey}]" of the element at position k
SubPath(prop, k) ==
    prop.identifier \o "[" \o SubKey(prop.items[k], k - 1) \o "]"

\* what the loop writes for the element at position k
ItemEntries(prop, k) ==
    IF prop.items[k].is_id THEN SubPath(prop, k) :> IDRef(prop.items[k])
    ELSE _walk_rna(prop.items[k], SubPath(prop, k))

\* C30: path uniqueness within a walk: different elements of one collection
\* get different paths, so no write overwrites an entry written earlier in
\* the same walk, and every visited leaf value is in the returned map
PathsUnique ==
    pc = "walked" =>
        \A i \in 1..Len(datablock.props) :
            LET prop == datablock.props[i]
            IN  prop.is_collection =>
                    /\ \A k, m \in Visited(prop) :
                        (k # m /\ prop.items[k] # prop.items[m])
                        => SubPath(prop, k) # SubPath(prop, m)
                    /\ \A k \in Visited(prop) :
                        Within(ItemEntries(prop, k), hashed.props)

\* C27: clean-state precondition of the compare operator: invoke calls
\* diff_current_vs_other only when the document has a backing file and no
\* unsaved changes; otherwise it returns CANCELLED without loading a file,
\* and the document in memory keeps its unsaved edits
CleanStatePrecondition ==
    (call.op = "invoke" /\ (call.filepath = "none" \/ call.is_dirty)) =>
        /\ returned = {"CANCELLED"}
        /\ events = <<>>
        /\ current = call.data

\* the engine's view of an object of the session at the time of the call:
\* its snapshot entry, and whether the other file holds a differing or no
\* entry under the same identity key
NewOrModified(entry) ==
    \/ entry.key \notin DictKeys(snap_other)
    \/ FieldDifference(entry.block.props, DictValue(snap_other, entry.key).props)

\* C21: add-on highlighting: after the compare operator finishes on a clean
\* session, every object of the scene that is selectable, not under an
\* excluded collection and new or modified relative to the compared file is
\* selected, and no object that is identical in both files is selected
HighlightsNewAndModified ==
    (call.op = "invoke" /\ returned = {"FINISHED"} /\ ~call.is_dirty) =>
        \A i \in 1..Len(snap_current) :
            LET entry == snap_current[i]
                name == NameOf(entry.block)
            IN  ( /\ entry.block.bpy_path = "objects"
                  /\ name \notin excluded
                  /\ ~entry.block.props["hide_select"].b )
                => (NewOrModified(entry) <=> name \in selected)

====
